---- MODULE Spec2Model ----
(***************************************************************************)
(* Model of the CEWCE workflow contract                                    *)
(* (contracts/workflow-contract/src/main.rs).                              *)
(*                                                                         *)
(* The persisted state is the three named keys of the contract: the        *)
(* "workflows" dictionary, the "transitions" dictionary and the            *)
(* "workflow_count" counter.  Every entry point is one action; a revert    *)
(* leaves the persisted state as it was and is visible only in the         *)
(* observation `last` (entry point, arguments, error code, returned        *)
(* value); `pre` keeps the persisted state the invocation started from     *)
(* whenever the invocation changed it.                                     *)
(***************************************************************************)
EXTENDS Integers, Sequences, FiniteSets, TLC

VARIABLES
    workflows,       \* dictionary "workflows": key -> WorkflowData
    transitions,     \* dictionary "transitions": key -> Vec<TransitionRecord>
    workflow_count,  \* the value behind the "workflow_count" URef
    now,             \* the host's block time
    issued,          \* ids returned by the successful create_workflow calls, in call order
    last,            \* the last invocation: entry point, arguments, error code, returned value
    pre,             \* the persisted state the last invocation started from, kept
                     \* as <<state>> when the invocation changed it and <<>> when not
    inflight         \* the transition_state call that is executing statement by
                     \* statement, as <<call>>, or <<>> when there is none

vars == <<workflows, transitions, workflow_count, now, issued, last, pre, inflight>>

\* The persisted state: the values behind the contract's named keys
store ==
    [workflows |-> workflows, transitions |-> transitions, workflow_count |-> workflow_count]

-----------------------------------------------------------------------------
(* Bounds of the model *)

\* The largest value the counter can hold (U256::MAX, scaled down).
MaxCount == 2

\* The block time stops advancing here.
MaxTime == 1

\* The model stops accepting transitions once this many are recorded in all.
MaxTransitions == 3

-----------------------------------------------------------------------------
(* Error codes: enum WorkflowError *)

Ok == 0
WorkflowNotFound == 1
InvalidTransition == 2
InsufficientPermissions == 3
WorkflowAlreadyCompleted == 4
StorageError == 9
Overflow == 10

(* Workflow states: mod states *)

DRAFT == 0
PENDING_REVIEW == 1
APPROVED == 10
REJECTED == 11
ESCALATED == 20
CANCELLED == 30

(* Role bits: mod roles *)

REQUESTER == 1
APPROVER == 2
SENIOR_APPROVER == 4
ADMIN == 8
AUDITOR == 16

\* The values of a u8
U8 == 0..255

-----------------------------------------------------------------------------
(* Inputs of the calls *)

\* workflow_id arguments: 0 (never issued) and every id the counter can issue
WorkflowIds == 0..MaxCount

\* to_state arguments: the six predefined states and an extension value
ToStates == {DRAFT, PENDING_REVIEW, APPROVED, REJECTED, ESCALATED, CANCELLED, 100}

\* create_workflow invocations: caller, template_hash, data_hash
CreateCalls ==
    { [caller |-> "alice", template_hash |-> "h1", data_hash |-> "h2"] }

\* transition_state invocations: caller, actor_role, comment_hash
TransitionCalls ==
    { [caller |-> "bob", actor_role |-> APPROVER, comment_hash |-> "c1"] }

\* actor_role values a caller can claim: no role and each single role bit
Roles == {0, REQUESTER, APPROVER, SENIOR_APPROVER, ADMIN, AUDITOR}

\* accounts runtime::get_caller can report
Accounts == {"alice", "bob", "carol"}

-----------------------------------------------------------------------------
(* Host primitives as the contract uses them *)

\* U256::to_string: the decimal digits of the id
to_string(workflow_id) == ToString(workflow_id)

\* storage::dictionary_get: Some(value) as <<value>>, None as <<>>
dictionary_get(dict, key) ==
    IF key \in DOMAIN dict THEN <<dict[key]>> ELSE <<>>

\* storage::dictionary_put
dictionary_put(dict, key, value) ==
    [k \in (DOMAIN dict) \cup {key} |-> IF k = key THEN value ELSE dict[k]]

\* runtime::get_blocktime
get_block_time == now

\* U256::saturating_add(current, 1) in place of the checked addition
checked_add_one_saturating(current) ==
    IF current + 1 > MaxCount THEN <<current>> ELSE <<current + 1>>

\* U256::checked_add(current, 1) with wrap-around instead of the check
checked_add_one_wrapping(current) ==
    IF current + 1 > MaxCount THEN <<0>> ELSE <<current + 1>>

\* U256::checked_add(current, 1): Some(sum) as <<sum>>, None as <<>>
checked_add_one(current) ==
    IF current + 1 > MaxCount THEN <<>> ELSE <<current + 1>>

\* Option<Vec<TransitionRecord>>::unwrap_or_else(|| Vec::new())
unwrap_or_new(opt) == IF opt = <<>> THEN <<>> ELSE opt[1]

-----------------------------------------------------------------------------
(* Pure helpers *)

\* is_terminal_state without APPROVED
is_terminal_state_no_approved(state) ==
    state \in {REJECTED, CANCELLED}

is_terminal_state(state) ==
    state \in {APPROVED, REJECTED, CANCELLED}

\* is_valid_transition with one more arm, (DRAFT, APPROVED)
is_valid_transition_extra_arm(from, to) ==
    CASE from = DRAFT /\ to = PENDING_REVIEW -> TRUE
      [] from = DRAFT /\ to = CANCELLED -> TRUE
      [] from = DRAFT /\ to = APPROVED -> TRUE
      [] from = PENDING_REVIEW /\ to = APPROVED -> TRUE
      [] from = PENDING_REVIEW /\ to = REJECTED -> TRUE
      [] from = PENDING_REVIEW /\ to = ESCALATED -> TRUE
      [] from = ESCALATED /\ to = APPROVED -> TRUE
      [] from = ESCALATED /\ to = REJECTED -> TRUE
      [] OTHER -> FALSE

\* is_valid_transition without the two ESCALATED arms
is_valid_transition_dead_end(from, to) ==
    CASE from = DRAFT /\ to = PENDING_REVIEW -> TRUE
      [] from = DRAFT /\ to = CANCELLED -> TRUE
      [] from = PENDING_REVIEW /\ to = APPROVED -> TRUE
      [] from = PENDING_REVIEW /\ to = REJECTED -> TRUE
      [] from = PENDING_REVIEW /\ to = ESCALATED -> TRUE
      [] OTHER -> FALSE

\* is_valid_transition with one more arm, (PENDING_REVIEW, CANCELLED)
is_valid_transition_late_cancel(from, to) ==
    CASE from = DRAFT /\ to = PENDING_REVIEW -> TRUE
      [] from = DRAFT /\ to = CANCELLED -> TRUE
      [] from = PENDING_REVIEW /\ to = APPROVED -> TRUE
      [] from = PENDING_REVIEW /\ to = REJECTED -> TRUE
      [] from = PENDING_REVIEW /\ to = ESCALATED -> TRUE
      [] from = PENDING_REVIEW /\ to = CANCELLED -> TRUE
      [] from = ESCALATED /\ to = APPROVED -> TRUE
      [] from = ESCALATED /\ to = REJECTED -> TRUE
      [] OTHER -> FALSE

\* is_valid_transition with one more arm, (ESCALATED, PENDING_REVIEW)
is_valid_transition_send_back(from, to) ==
    CASE from = DRAFT /\ to = PENDING_REVIEW -> TRUE
      [] from = DRAFT /\ to = CANCELLED -> TRUE
      [] from = PENDING_REVIEW /\ to = APPROVED -> TRUE
      [] from = PENDING_REVIEW /\ to = REJECTED -> TRUE
      [] from = PENDING_REVIEW /\ to = ESCALATED -> TRUE
      [] from = ESCALATED /\ to = PENDING_REVIEW -> TRUE
      [] from = ESCALATED /\ to = APPROVED -> TRUE
      [] from = ESCALATED /\ to = REJECTED -> TRUE
      [] OTHER -> FALSE

\* is_valid_transition with one arm (ESCALATED, _) for the ESCALATED arms
is_valid_transition_wildcard(from, to) ==
    CASE from = DRAFT /\ to = PENDING_REVIEW -> TRUE
      [] from = DRAFT /\ to = CANCELLED -> TRUE
      [] from = PENDING_REVIEW /\ to = APPROVED -> TRUE
      [] from = PENDING_REVIEW /\ to = REJECTED -> TRUE
      [] from = PENDING_REVIEW /\ to = ESCALATED -> TRUE
      [] from = ESCALATED -> TRUE
      [] OTHER -> FALSE

is_valid_transition(from, to) ==
    CASE from = DRAFT /\ to = PENDING_REVIEW -> TRUE
      [] from = DRAFT /\ to = CANCELLED -> TRUE
      [] from = PENDING_REVIEW /\ to = APPROVED -> TRUE
      [] from = PENDING_REVIEW /\ to = REJECTED -> TRUE
      [] from = PENDING_REVIEW /\ to = ESCALATED -> TRUE
      [] from = ESCALATED /\ to = APPROVED -> TRUE
      [] from = ESCALATED /\ to = REJECTED -> TRUE
      [] OTHER -> FALSE

\* new_workflow with the two hashes in each other's place
new_workflow_swapped(workflow_id, template_hash, data_hash, caller, timestamp) ==
    [ id            |-> workflow_id,
      template_hash |-> data_hash,
      data_hash     |-> template_hash,
      current_state |-> DRAFT,
      creator       |-> caller,
      created_at    |-> timestamp,
      updated_at    |-> timestamp,
      is_completed  |-> FALSE ]

\* The WorkflowData built by create_workflow
new_workflow(workflow_id, template_hash, data_hash, caller, timestamp) ==
    [ id            |-> workflow_id,
      template_hash |-> template_hash,
      data_hash     |-> data_hash,
      current_state |-> DRAFT,
      creator       |-> caller,
      created_at    |-> timestamp,
      updated_at    |-> timestamp,
      is_completed  |-> FALSE ]

\* new_transition that takes from_state after the state was updated
new_transition_late_from(from_state, to_state, caller, actor_role, timestamp, comment_hash) ==
    [ from_state   |-> to_state,
      to_state     |-> to_state,
      actor        |-> caller,
      actor_role   |-> actor_role,
      timestamp    |-> timestamp,
      comment_hash |-> comment_hash ]

\* The TransitionRecord built by transition_state
new_transition(from_state, to_state, caller, actor_role, timestamp, comment_hash) ==
    [ from_state   |-> from_state,
      to_state     |-> to_state,
      actor        |-> caller,
      actor_role   |-> actor_role,
      timestamp    |-> timestamp,
      comment_hash |-> comment_hash ]

\* updated_workflow that leaves is_completed as it was
updated_workflow_stale_flag(workflow, to_state, timestamp) ==
    [workflow EXCEPT !.current_state = to_state,
                     !.updated_at = timestamp]

\* updated_workflow that leaves updated_at as it was
updated_workflow_stale_time(workflow, to_state, timestamp) ==
    [workflow EXCEPT !.current_state = to_state,
                     !.is_completed = is_terminal_state(to_state)]

\* updated_workflow that also stamps created_at
updated_workflow_restamped(workflow, to_state, timestamp) ==
    [workflow EXCEPT !.current_state = to_state,
                     !.created_at = timestamp,
                     !.updated_at = timestamp,
                     !.is_completed = is_terminal_state(to_state)]

\* The three field updates of transition_state
updated_workflow(workflow, to_state, timestamp) ==
    [workflow EXCEPT !.current_state = to_state,
                     !.updated_at = timestamp,
                     !.is_completed = is_terminal_state(to_state)]

\* transition_error with the transition validated before the completed check
transition_error_validate_first(loaded, to_state) ==
    IF loaded = <<>> THEN WorkflowNotFound
    ELSE IF ~is_valid_transition(loaded[1].current_state, to_state) THEN InvalidTransition
    ELSE IF loaded[1].is_completed THEN WorkflowAlreadyCompleted
    ELSE Ok

\* The checks of transition_state in the order the code makes them:
\* the error code of the revert, or Ok
transition_error(loaded, to_state) ==
    IF loaded = <<>> THEN WorkflowNotFound
    ELSE IF loaded[1].is_completed THEN WorkflowAlreadyCompleted
    ELSE IF ~is_valid_transition(loaded[1].current_state, to_state) THEN InvalidTransition
    ELSE Ok

\* The number of records in the transitions dictionary
total_records(dict) ==
    Cardinality(UNION { {<<k, i>> : i \in 1..Len(dict[k])} : k \in DOMAIN dict })

-----------------------------------------------------------------------------
(* What each entry point does to a persisted state s, and what it returns *)

\* increment_workflow_count: Some(new_count) or None (revert with Overflow)
increment_workflow_count(s) == checked_add_one(s.workflow_count)

\* create_workflow that never writes the new count back
create_workflow_effect_no_write(s, template_hash, data_hash, caller, timestamp) ==
    LET new_count == increment_workflow_count(s)
    IN  IF new_count = <<>>
        THEN [result |-> Overflow, ret |-> <<>>, store |-> s]
        ELSE LET workflow_id == new_count[1]
                 key == to_string(workflow_id)
                 workflow == new_workflow(workflow_id, template_hash, data_hash,
                                          caller, timestamp)
             IN  [result |-> Ok,
                  ret    |-> <<workflow_id>>,
                  store  |-> [workflows      |-> dictionary_put(s.workflows, key, workflow),
                              transitions    |-> dictionary_put(s.transitions, key, <<>>),
                              workflow_count |-> s.workflow_count]]

\* create_workflow that does not initialize the transitions entry
create_workflow_effect_no_init(s, template_hash, data_hash, caller, timestamp) ==
    LET new_count == increment_workflow_count(s)
    IN  IF new_count = <<>>
        THEN [result |-> Overflow, ret |-> <<>>, store |-> s]
        ELSE LET workflow_id == new_count[1]
                 key == to_string(workflow_id)
                 workflow == new_workflow(workflow_id, template_hash, data_hash,
                                          caller, timestamp)
             IN  [result |-> Ok,
                  ret    |-> <<workflow_id>>,
                  store  |-> [workflows      |-> dictionary_put(s.workflows, key, workflow),
                              transitions    |-> s.transitions,
                              workflow_count |-> workflow_id]]

\* create_workflow that uses the count before the increment as the new id
create_workflow_effect_zero_based(s, template_hash, data_hash, caller, timestamp) ==
    LET new_count == increment_workflow_count(s)
    IN  IF new_count = <<>>
        THEN [result |-> Overflow, ret |-> <<>>, store |-> s]
        ELSE LET workflow_id == s.workflow_count
                 key == to_string(workflow_id)
                 workflow == new_workflow(workflow_id, template_hash, data_hash,
                                          caller, timestamp)
             IN  [result |-> Ok,
                  ret    |-> <<workflow_id>>,
                  store  |-> [workflows      |-> dictionary_put(s.workflows, key, workflow),
                              transitions    |-> dictionary_put(s.transitions, key, <<>>),
                              workflow_count |-> new_count[1]]]

create_workflow_effect(s, template_hash, data_hash, caller, timestamp) ==
    LET new_count == increment_workflow_count(s)
    IN  IF new_count = <<>>
        THEN [result |-> Overflow, ret |-> <<>>, store |-> s]
        ELSE LET workflow_id == new_count[1]
                 key == to_string(workflow_id)
                 workflow == new_workflow(workflow_id, template_hash, data_hash,
                                          caller, timestamp)
             IN  [result |-> Ok,
                  ret    |-> <<workflow_id>>,
                  store  |-> [workflows      |-> dictionary_put(s.workflows, key, workflow),
                              transitions    |-> dictionary_put(s.transitions, key, <<>>),
                              workflow_count |-> workflow_id]]

\* transition_state that stores the workflow before it validates the transition
transition_state_effect_store_first(s, workflow_id, to_state, caller, actor_role, comment_hash, timestamp) ==
    LET key == to_string(workflow_id)
        loaded == dictionary_get(s.workflows, key)
        err == transition_error(loaded, to_state)
    IN  IF err = WorkflowNotFound \/ err = WorkflowAlreadyCompleted
        THEN [result |-> err, ret |-> <<>>, store |-> s]
        ELSE LET workflow == loaded[1]
                 from_state == workflow.current_state
                 transition == new_transition(from_state, to_state, caller, actor_role,
                                              timestamp, comment_hash)
                 written == dictionary_put(s.workflows, key,
                                updated_workflow(workflow, to_state, timestamp))
             IN  IF err # Ok
                 THEN [result |-> err, ret |-> <<>>,
                       store |-> [s EXCEPT !.workflows = written]]
                 ELSE [result |-> Ok,
                       ret    |-> <<>>,
                       store  |-> [s EXCEPT
                           !.workflows = written,
                           !.transitions = dictionary_put(s.transitions, key,
                               Append(unwrap_or_new(dictionary_get(s.transitions, key)),
                                      transition))]]

\* transition_state that lets only a caller claiming APPROVER decide
transition_state_effect_role_gated(s, workflow_id, to_state, caller, actor_role, comment_hash, timestamp) ==
    LET key == to_string(workflow_id)
        loaded == dictionary_get(s.workflows, key)
        err == transition_error(loaded, to_state)
    IN  IF err # Ok
        THEN [result |-> err, ret |-> <<>>, store |-> s]
        ELSE IF to_state \in {APPROVED, REJECTED} /\ (actor_role \div APPROVER) % 2 = 0
        THEN [result |-> InsufficientPermissions, ret |-> <<>>, store |-> s]
        ELSE LET workflow == loaded[1]
                 from_state == workflow.current_state
                 transition == new_transition(from_state, to_state, caller, actor_role,
                                              timestamp, comment_hash)
             IN  [result |-> Ok,
                  ret    |-> <<>>,
                  store  |-> [s EXCEPT
                      !.workflows = dictionary_put(s.workflows, key,
                          updated_workflow(workflow, to_state, timestamp)),
                      !.transitions = dictionary_put(s.transitions, key,
                          Append(unwrap_or_new(dictionary_get(s.transitions, key)),
                                 transition))]]

\* transition_state that starts the history from Vec::new() on every call
transition_state_effect_fresh_history(s, workflow_id, to_state, caller, actor_role, comment_hash, timestamp) ==
    LET key == to_string(workflow_id)
        loaded == dictionary_get(s.workflows, key)
        err == transition_error(loaded, to_state)
    IN  IF err # Ok
        THEN [result |-> err, ret |-> <<>>, store |-> s]
        ELSE LET workflow == loaded[1]
                 from_state == workflow.current_state
                 transition == new_transition(from_state, to_state, caller, actor_role,
                                              timestamp, comment_hash)
             IN  [result |-> Ok,
                  ret    |-> <<>>,
                  store  |-> [s EXCEPT
                      !.workflows = dictionary_put(s.workflows, key,
                          updated_workflow(workflow, to_state, timestamp)),
                      !.transitions = dictionary_put(s.transitions, key,
                          <<transition>>)]]

transition_state_effect(s, workflow_id, to_state, caller, actor_role, comment_hash, timestamp) ==
    LET key == to_string(workflow_id)
        loaded == dictionary_get(s.workflows, key)
        err == transition_error(loaded, to_state)
    IN  IF err # Ok
        THEN [result |-> err, ret |-> <<>>, store |-> s]
        ELSE LET workflow == loaded[1]
                 from_state == workflow.current_state
                 transition == new_transition(from_state, to_state, caller, actor_role,
                                              timestamp, comment_hash)
             IN  [result |-> Ok,
                  ret    |-> <<>>,
                  store  |-> [s EXCEPT
                      !.workflows = dictionary_put(s.workflows, key,
                          updated_workflow(workflow, to_state, timestamp)),
                      !.transitions = dictionary_put(s.transitions, key,
                          Append(unwrap_or_new(dictionary_get(s.transitions, key)),
                                 transition))]]

\* get_workflow_state that answers a missing entry with a blank DRAFT record
get_workflow_state_effect_default(s, workflow_id) ==
    LET loaded == dictionary_get(s.workflows, to_string(workflow_id))
    IN  IF loaded = <<>>
        THEN [result |-> Ok, ret |-> <<new_workflow(workflow_id, "", "", "", 0)>>, store |-> s]
        ELSE [result |-> Ok, ret |-> <<loaded[1]>>, store |-> s]

get_workflow_state_effect(s, workflow_id) ==
    LET loaded == dictionary_get(s.workflows, to_string(workflow_id))
    IN  IF loaded = <<>>
        THEN [result |-> WorkflowNotFound, ret |-> <<>>, store |-> s]
        ELSE [result |-> Ok, ret |-> <<loaded[1]>>, store |-> s]

get_workflow_history_effect(s, workflow_id) ==
    LET transitions_opt == dictionary_get(s.transitions, to_string(workflow_id))
    IN  [result |-> Ok, ret |-> <<unwrap_or_new(transitions_opt)>>, store |-> s]

\* read_workflow_count: the stored count
read_workflow_count(s) == s.workflow_count

get_workflow_count_effect(s) ==
    [result |-> Ok, ret |-> <<read_workflow_count(s)>>, store |-> s]

-----------------------------------------------------------------------------
(* Installation: fn call() *)

Init ==
    /\ workflows = <<>>
    /\ transitions = <<>>
    /\ workflow_count = 0
    /\ now = 0
    /\ issued = <<>>
    /\ last = [op |-> "call", args |-> <<>>, result |-> Ok, ret |-> <<>>]
    /\ pre = <<>>
    /\ inflight = <<>>

-----------------------------------------------------------------------------
(* Entry points *)

\* The invocation leaves `out.store` behind and is remembered in last and pre.
Invoked(op, args, out) ==
    /\ workflows' = out.store.workflows
    /\ transitions' = out.store.transitions
    /\ workflow_count' = out.store.workflow_count
    /\ last' = [op |-> op, args |-> args, result |-> out.result, ret |-> out.ret]
    /\ pre' = IF out.store = store THEN <<>> ELSE <<store>>
    /\ UNCHANGED <<now, inflight>>

create_workflow ==
    \E c \in CreateCalls :
        \E out \in {create_workflow_effect(store, c.template_hash, c.data_hash,
                                           c.caller, get_block_time)} :
            /\ Invoked("create_workflow", c, out)
            /\ issued' = IF out.result = Ok THEN Append(issued, out.ret[1]) ELSE issued

transition_state ==
    \E workflow_id \in WorkflowIds, to_state \in ToStates, c \in TransitionCalls :
        \E out \in {transition_state_effect(store, workflow_id, to_state, c.caller,
                                            c.actor_role, c.comment_hash, get_block_time)} :
            /\ out.result = Ok =>
                   total_records(transitions) < MaxTransitions
            /\ Invoked("transition_state",
                       [workflow_id |-> workflow_id, to_state |-> to_state,
                        caller |-> c.caller, actor_role |-> c.actor_role,
                        comment_hash |-> c.comment_hash],
                       out)
            /\ UNCHANGED issued

get_workflow_state ==
    \E workflow_id \in WorkflowIds :
        \E out \in {get_workflow_state_effect(store, workflow_id)} :
            /\ Invoked("get_workflow_state", [workflow_id |-> workflow_id], out)
            /\ UNCHANGED issued

get_workflow_history ==
    \E workflow_id \in WorkflowIds :
        \E out \in {get_workflow_history_effect(store, workflow_id)} :
            /\ Invoked("get_workflow_history", [workflow_id |-> workflow_id], out)
            /\ UNCHANGED issued

get_workflow_count ==
    \E out \in {get_workflow_count_effect(store)} :
        /\ Invoked("get_workflow_count", <<>>, out)
        /\ UNCHANGED issued

\* The host moves to a later block.
Tick ==
    /\ now < MaxTime
    /\ now' = now + 1
    /\ last' = [op |-> "tick", args |-> <<>>, result |-> Ok, ret |-> <<>>]
    /\ pre' = <<>>
    /\ UNCHANGED <<workflows, transitions, workflow_count, issued, inflight>>

Next ==
    \/ create_workflow
    \/ transition_state
    \/ get_workflow_state
    \/ get_workflow_history
    \/ get_workflow_count
    \/ Tick

Spec == Init /\ [][Next]_vars

-----------------------------------------------------------------------------
(* transition_state statement by statement.  The host runs one              *)
(* state-changing call at a time; the call's writes go to its own copy of   *)
(* the persisted state (effects), which the host keeps when the call        *)
(* returns and discards when it reverts.  Read queries see the persisted    *)
(* state and may run while the call is executing.  All calls of this       *)
(* specification run at one block time.                                     *)

\* unwrap_or_revert_with(StorageError) that returns from the call instead
after_storage_error_returns(committed, effects) == effects

\* The persisted state after unwrap_or_revert_with(StorageError) reverts a
\* call that has made the writes in effects
after_storage_error(committed, effects) == committed

\* The call ends: the host keeps s as the persisted state.
Ended(s, args, result) ==
    /\ workflows' = s.workflows
    /\ transitions' = s.transitions
    /\ workflow_count' = s.workflow_count
    /\ last' = [op |-> "transition_state", args |-> args, result |-> result, ret |-> <<>>]
    /\ pre' = IF s = store THEN <<>> ELSE <<store>>
    /\ inflight' = <<>>
    /\ UNCHANGED <<now, issued>>

\* Arguments, caller, block time, load and the two checks
transition_state_load ==
    /\ inflight = <<>>
    /\ \E workflow_id \in WorkflowIds, to_state \in ToStates, c \in TransitionCalls :
           LET args == [workflow_id |-> workflow_id, to_state |-> to_state,
                        caller |-> c.caller, actor_role |-> c.actor_role,
                        comment_hash |-> c.comment_hash]
               loaded == dictionary_get(workflows, to_string(workflow_id))
               err == transition_error(loaded, to_state)
           IN  IF err # Ok
               THEN Ended(store, args, err)
               ELSE /\ total_records(transitions) < MaxTransitions
                    /\ inflight' = << [ pc |-> "put_workflow",
                                        args |-> args,
                                        key |-> to_string(workflow_id),
                                        timestamp |-> get_block_time,
                                        workflow |-> loaded[1],
                                        transition |->
                                            new_transition(loaded[1].current_state, to_state,
                                                           c.caller, c.actor_role,
                                                           get_block_time, c.comment_hash),
                                        loaded_transitions |-> <<>>,
                                        effects |-> store ] >>
                    /\ UNCHANGED <<workflows, transitions, workflow_count, now, issued,
                                   last, pre>>

\* Update the three fields and store the workflow
transition_state_put_workflow ==
    /\ inflight # <<>>
    /\ inflight[1].pc = "put_workflow"
    /\ LET f == inflight[1]
       IN  inflight' = << [f EXCEPT
               !.pc = "get_transitions",
               !.effects.workflows =
                   dictionary_put(f.effects.workflows, f.key,
                       updated_workflow(f.workflow, f.args.to_state, f.timestamp))] >>
    /\ UNCHANGED <<workflows, transitions, workflow_count, now, issued, last, pre>>

\* Read the history: the host may fail the read, which reverts the call
transition_state_get_transitions ==
    /\ inflight # <<>>
    /\ inflight[1].pc = "get_transitions"
    /\ LET f == inflight[1]
       IN  \/ /\ inflight' = << [f EXCEPT
                     !.pc = "push",
                     !.loaded_transitions =
                         unwrap_or_new(dictionary_get(f.effects.transitions, f.key))] >>
              /\ UNCHANGED <<workflows, transitions, workflow_count, now, issued, last, pre>>
           \/ Ended(after_storage_error(store, f.effects), f.args, StorageError)

\* Push the record and store the history
transition_state_push ==
    /\ inflight # <<>>
    /\ inflight[1].pc = "push"
    /\ LET f == inflight[1]
       IN  inflight' = << [f EXCEPT
               !.pc = "return",
               !.effects.transitions =
                   dictionary_put(f.effects.transitions, f.key,
                       Append(f.loaded_transitions, f.transition))] >>
    /\ UNCHANGED <<workflows, transitions, workflow_count, now, issued, last, pre>>

\* The call returns
transition_state_return ==
    /\ inflight # <<>>
    /\ inflight[1].pc = "return"
    /\ Ended(inflight[1].effects, inflight[1].args, Ok)

\* create_workflow, run while no other state-changing call is executing
create_workflow_serial == inflight = <<>> /\ create_workflow

NextSteps ==
    \/ create_workflow_serial
    \/ transition_state_load
    \/ transition_state_put_workflow
    \/ transition_state_get_transitions
    \/ transition_state_push
    \/ transition_state_return
    \/ get_workflow_state
    \/ get_workflow_history
    \/ get_workflow_count

SpecSteps == Init /\ [][NextSteps]_vars

-----------------------------------------------------------------------------
(* is_valid_transition on its own: one application to each pair of u8 values *)

InitValidity ==
    /\ workflows = <<>>
    /\ transitions = <<>>
    /\ workflow_count = 0
    /\ now = 0
    /\ issued = <<>>
    /\ pre = <<>>
    /\ inflight = <<>>
    /\ \E from \in U8, to \in U8 :
           last = [op |-> "is_valid_transition", args |-> [from |-> from, to |-> to],
                   result |-> Ok, ret |-> <<>>]

apply_is_valid_transition ==
    /\ last.op = "is_valid_transition"
    /\ last.ret = <<>>
    /\ last' = [last EXCEPT !.ret = <<is_valid_transition(last.args.from, last.args.to)>>]
    /\ UNCHANGED <<workflows, transitions, workflow_count, now, issued, pre, inflight>>

SpecValidity == InitValidity /\ [][apply_is_valid_transition]_vars

-----------------------------------------------------------------------------
(* Vocabulary of the properties *)

\* The seven pairs of the allow-list, as the specification lists them
AllowList ==
    { <<DRAFT, PENDING_REVIEW>>, <<DRAFT, CANCELLED>>,
      <<PENDING_REVIEW, APPROVED>>, <<PENDING_REVIEW, REJECTED>>,
      <<PENDING_REVIEW, ESCALATED>>,
      <<ESCALATED, APPROVED>>, <<ESCALATED, REJECTED>> }

\* The terminal states, as the specification lists them
TerminalStates == {APPROVED, REJECTED, CANCELLED}

\* The persisted state the last invocation started from
Before == IF pre = <<>> THEN store ELSE pre[1]

\* The key the last invocation addressed
LastKey == to_string(last.args.workflow_id)

\* The records stored for a key in persisted state s (none: the empty sequence)
RecordsOf(s, key) == IF key \in DOMAIN s.transitions THEN s.transitions[key] ELSE <<>>

\* The to_state of each record of a history, in order
ToStatesOf(h) == [i \in 1..Len(h) |-> h[i].to_state]

\* The error codes transition_state reverts with on a business rule
TransitionFailures == {WorkflowNotFound, WorkflowAlreadyCompleted, InvalidTransition}

-----------------------------------------------------------------------------
(* C1 *)

\* The outcome transition_state has in the current persisted state, for each
\* existing workflow that is not completed and each of the 256 values of
\* to_state, is Ok for an allow-listed pair and InvalidTransition otherwise.
AllToStatesDecidedByAllowList ==
    \A workflow_id \in WorkflowIds, to_state \in U8, c \in TransitionCalls :
        LET key == to_string(workflow_id)
        IN  (key \in DOMAIN workflows /\ ~workflows[key].is_completed)
            => transition_state_effect(store, workflow_id, to_state, c.caller,
                                       c.actor_role, c.comment_hash, now).result
               = IF <<workflows[key].current_state, to_state>> \in AllowList
                 THEN Ok ELSE InvalidTransition

\* C1: a transition_state call on an existing workflow that is not completed
\* succeeds (and moves the workflow to to_state) exactly when (current_state,
\* to_state) is one of the seven allow-listed pairs; in every other case it
\* reverts with InvalidTransition.  The calls made cover the to_state values
\* of ToStates; the second conjunct covers all of 0..255 in every persisted
\* state (each persisted state is also reached with get_workflow_count as
\* the last invocation).
C1_TransitionIffAllowed ==
    /\ (last.op = "transition_state" /\ LastKey \in DOMAIN Before.workflows
            /\ ~Before.workflows[LastKey].is_completed)
       => IF <<Before.workflows[LastKey].current_state, last.args.to_state>> \in AllowList
          THEN /\ last.result = Ok
               /\ workflows[LastKey].current_state = last.args.to_state
          ELSE last.result = InvalidTransition
    /\ last.op = "get_workflow_count" => AllToStatesDecidedByAllowList

\* An escalated workflow has just been rejected.
C1_Witness ==
    /\ last.op = "transition_state"
    /\ last.result = Ok
    /\ LastKey \in DOMAIN Before.workflows
    /\ Before.workflows[LastKey].current_state = ESCALATED
    /\ last.args.to_state = REJECTED

-----------------------------------------------------------------------------
(* C2 *)

\* C2: a workflow that is completed when an invocation starts is completed
\* with the same current_state when it ends, and if the invocation is a
\* transition_state on that workflow it reverts with WorkflowAlreadyCompleted
\* whatever to_state is.  Holding for every invocation, this keeps a completed
\* workflow frozen in every later state.
C2_CompletedIsFrozen ==
    \A key \in DOMAIN Before.workflows :
        Before.workflows[key].is_completed
        => /\ key \in DOMAIN workflows
           /\ workflows[key].is_completed
           /\ workflows[key].current_state = Before.workflows[key].current_state
           /\ (last.op = "transition_state" /\ LastKey = key)
                  => last.result = WorkflowAlreadyCompleted

\* A cancelled workflow was asked to go to PENDING_REVIEW and the call
\* reverted with WorkflowAlreadyCompleted.
C2_Witness ==
    /\ last.op = "transition_state"
    /\ last.args.to_state = PENDING_REVIEW
    /\ LastKey \in DOMAIN Before.workflows
    /\ Before.workflows[LastKey].current_state = CANCELLED
    /\ last.result = WorkflowAlreadyCompleted

-----------------------------------------------------------------------------
(* C3 *)

\* C3: for every existing workflow the recorded transitions form a chain
\* from DRAFT to the current state: the first record starts at DRAFT, each
\* record starts where the one before it ended, and current_state is the
\* to_state of the last record (DRAFT when there is none).
C3_HistoryIsChain ==
    \A key \in DOMAIN workflows :
        LET h == RecordsOf(store, key)
        IN  /\ h # <<>> => h[1].from_state = DRAFT
            /\ \A i \in 1..(Len(h) - 1) : h[i].to_state = h[i + 1].from_state
            /\ workflows[key].current_state =
                   IF h = <<>> THEN DRAFT ELSE h[Len(h)].to_state

\* Some workflow has three records.
C3_Witness ==
    \E key \in DOMAIN workflows : Len(RecordsOf(store, key)) = 3

-----------------------------------------------------------------------------
(* C4 *)

\* C4: the ids returned by the successful create_workflow calls, in call
\* order, are strictly increasing (hence pairwise distinct, none reused) and
\* consecutive, whatever other calls were made in between.
C4_IdsConsecutive ==
    /\ \A i \in 1..(Len(issued) - 1) : issued[i + 1] = issued[i] + 1
    /\ \A i, j \in 1..Len(issued) : i < j => issued[i] < issued[j]

\* A second workflow has just been created after the first one made a
\* transition.
C4_Witness ==
    /\ last.op = "create_workflow"
    /\ last.result = Ok
    /\ Len(issued) >= 2
    /\ \E key \in DOMAIN Before.transitions : Before.transitions[key] # <<>>

-----------------------------------------------------------------------------
(* C5 *)

\* C5: get_workflow_history returns the empty sequence for a workflow that
\* was created and never made a transition, and reverts with WorkflowNotFound
\* for an id that was never created.
C5_HistoryOfUnknownIsNotFound ==
    last.op = "get_workflow_history"
    => IF LastKey \in DOMAIN workflows
       THEN RecordsOf(store, LastKey) = <<>>
                => (last.result = Ok /\ last.ret = << <<>> >>)
       ELSE last.result = WorkflowNotFound

-----------------------------------------------------------------------------
(* C6 *)

\* C6: a transition_state call that reverts with WorkflowNotFound,
\* WorkflowAlreadyCompleted or InvalidTransition leaves both dictionaries and
\* the counter exactly as they were before the call.
C6_FailedTransitionChangesNothing ==
    (last.op = "transition_state" /\ last.result \in TransitionFailures)
    => store = Before

\* DRAFT -> APPROVED has just been refused for a workflow without history.
C6_Witness ==
    /\ last.op = "transition_state"
    /\ last.result = InvalidTransition
    /\ last.args.to_state = APPROVED
    /\ LastKey \in DOMAIN workflows
    /\ workflows[LastKey].current_state = DRAFT
    /\ RecordsOf(store, LastKey) = <<>>

-----------------------------------------------------------------------------
(* C7 *)

\* C7: create_workflow succeeds whenever the counter is below its maximum,
\* whatever workflows exist, and get_workflow_state on the returned id then
\* returns the record with that id, state DRAFT, the two hashes and the caller
\* of the call, is_completed false and both timestamps equal to the block
\* time of the call.
C7_CreateRoundTrip ==
    last.op = "create_workflow"
    => IF Before.workflow_count < MaxCount
       THEN /\ last.result = Ok
            /\ LET got == get_workflow_state_effect(store, last.ret[1])
               IN  /\ got.result = Ok
                   /\ got.ret[1] = [ id            |-> last.ret[1],
                                     template_hash |-> last.args.template_hash,
                                     data_hash     |-> last.args.data_hash,
                                     current_state |-> DRAFT,
                                     creator       |-> last.args.caller,
                                     created_at    |-> now,
                                     updated_at    |-> now,
                                     is_completed  |-> FALSE ]
       ELSE last.result = Overflow

\* A workflow has just been created in a later block while another one,
\* already moved on, exists.
C7_Witness ==
    /\ last.op = "create_workflow"
    /\ last.result = Ok
    /\ now > 0
    /\ \E key \in DOMAIN Before.workflows : Before.workflows[key].current_state # DRAFT

-----------------------------------------------------------------------------
(* C8 *)

\* C8: on a workflow whose history so far is empty, <<PENDING_REVIEW>>,
\* <<PENDING_REVIEW, ESCALATED>>, the calls transition_state(PENDING_REVIEW),
\* (ESCALATED), (APPROVED) respectively succeed and extend the history by that
\* state; after the third the history has exactly 3 records, current_state is
\* APPROVED and is_completed is true; a transition_state(REJECTED) after that
\* reverts with WorkflowAlreadyCompleted and leaves all of this in place.
C8_EscalatedApprovalScenario ==
    (last.op = "transition_state" /\ LastKey \in DOMAIN Before.workflows)
    => LET before == ToStatesOf(RecordsOf(Before, LastKey))
           after == ToStatesOf(RecordsOf(store, LastKey))
           to == last.args.to_state
           w == workflows[LastKey]
       IN  /\ (before = <<>> /\ to = PENDING_REVIEW)
                  => (last.result = Ok /\ after = <<PENDING_REVIEW>>)
           /\ (before = <<PENDING_REVIEW>> /\ to = ESCALATED)
                  => (last.result = Ok /\ after = <<PENDING_REVIEW, ESCALATED>>)
           /\ (before = <<PENDING_REVIEW, ESCALATED>> /\ to = APPROVED)
                  => /\ last.result = Ok
                     /\ after = <<PENDING_REVIEW, ESCALATED, APPROVED>>
                     /\ w.current_state = APPROVED
                     /\ w.is_completed
           /\ (before = <<PENDING_REVIEW, ESCALATED, APPROVED>> /\ to = REJECTED)
                  => /\ last.result = WorkflowAlreadyCompleted
                     /\ after = before
                     /\ w.current_state = APPROVED
                     /\ w.is_completed

\* The scenario has run to its end: REJECTED was refused after the approval.
C8_Witness ==
    /\ last.op = "transition_state"
    /\ last.args.to_state = REJECTED
    /\ last.result = WorkflowAlreadyCompleted
    /\ ToStatesOf(RecordsOf(store, LastKey)) = <<PENDING_REVIEW, ESCALATED, APPROVED>>

-----------------------------------------------------------------------------
(* C9 *)

\* C9: for every existing workflow, is_completed is true exactly when
\* current_state is APPROVED, REJECTED or CANCELLED.
C9_CompletedIffTerminal ==
    \A key \in DOMAIN workflows :
        workflows[key].is_completed <=> workflows[key].current_state \in TerminalStates

\* One workflow is completed and another has left DRAFT without completing.
C9_Witness ==
    /\ \E key \in DOMAIN workflows : workflows[key].is_completed
    /\ \E key \in DOMAIN workflows :
           /\ ~workflows[key].is_completed
           /\ workflows[key].current_state # DRAFT

-----------------------------------------------------------------------------
(* C10 *)

\* C10: the counter is zero after installation, one more after each
\* successful create_workflow and unchanged by every other invocation, so it
\* always equals the number of workflows created so far, and that is the
\* value get_workflow_count returns.
C10_CounterCountsCreations ==
    /\ last.op = "call" => workflow_count = 0
    /\ (last.op = "create_workflow" /\ last.result = Ok)
           => workflow_count = Before.workflow_count + 1
    /\ ~(last.op = "create_workflow" /\ last.result = Ok)
           => workflow_count = Before.workflow_count
    /\ workflow_count = Len(issued)
    /\ last.op = "get_workflow_count" => last.ret = <<Len(issued)>>

\* get_workflow_count has just returned 2 with transitions recorded.
C10_Witness ==
    /\ last.op = "get_workflow_count"
    /\ last.ret = <<2>>
    /\ \E key \in DOMAIN transitions : transitions[key] # <<>>

-----------------------------------------------------------------------------
(* C11 *)

\* The calls that differ from call c only in actor_role or only in the caller
VariantsOf(c) ==
    {[c EXCEPT !.actor_role = r] : r \in Roles} \cup {[c EXCEPT !.caller = a] : a \in Accounts}

\* Outcomes ref and alt of transition_state for one key agree in what role
\* authorization could influence, and alt recorded the call v as given.
SameOutcome(ref, alt, key, v) ==
    /\ alt.result = ref.result
    /\ DOMAIN alt.store.workflows = DOMAIN ref.store.workflows
    /\ key \in DOMAIN ref.store.workflows
           => /\ alt.store.workflows[key].current_state
                     = ref.store.workflows[key].current_state
              /\ alt.store.workflows[key].is_completed
                     = ref.store.workflows[key].is_completed
    /\ alt.result = Ok
           => LET h == alt.store.transitions[key]
              IN  /\ h[Len(h)].actor = v.caller
                  /\ h[Len(h)].actor_role = v.actor_role

\* In the current persisted state, a transition_state call that differs from
\* call c only in actor_role, or only in the caller, ends as call c does.
SameOutcomeForAnyRoleAndCaller ==
    \A workflow_id \in WorkflowIds, to_state \in ToStates, c \in TransitionCalls :
        \A ref \in {transition_state_effect(store, workflow_id, to_state, c.caller,
                                            c.actor_role, c.comment_hash, now)} :
            \A v \in VariantsOf(c) :
                \A alt \in {transition_state_effect(store, workflow_id, to_state, v.caller,
                                                    v.actor_role, v.comment_hash, now)} :
                    SameOutcome(ref, alt, to_string(workflow_id), v)

-----------------------------------------------------------------------------
(* C12 *)

\* In the current persisted state, transition_state (for each of the 256
\* values of to_state) and get_workflow_state on an id without a workflow
\* record revert with WorkflowNotFound and write nothing; the ids tried
\* include one above the counter's range.
UnknownIdIsNotFound ==
    \A workflow_id \in 0..(MaxCount + 1) :
        to_string(workflow_id) \notin DOMAIN workflows
        => /\ \A got \in {get_workflow_state_effect(store, workflow_id)} :
                  got.result = WorkflowNotFound /\ got.store = store
           /\ \A to_state \in U8, c \in TransitionCalls :
                  \A out \in {transition_state_effect(store, workflow_id, to_state, c.caller,
                                                      c.actor_role, c.comment_hash, now)} :
                      out.result = WorkflowNotFound /\ out.store = store

\* C12: only create_workflow brings a workflow into existence.  A
\* transition_state or get_workflow_state call on an id that has no workflow
\* record reverts with WorkflowNotFound and the id has neither a workflow
\* record nor a transition sequence afterwards; no invocation other than a
\* successful create_workflow adds a key to either dictionary, and that one
\* adds exactly the key of the id it returns.
C12_OnlyCreateMakesWorkflows ==
    /\ (last.op \in {"transition_state", "get_workflow_state"}
            /\ LastKey \notin DOMAIN Before.workflows)
           => /\ last.result = WorkflowNotFound
              /\ LastKey \notin DOMAIN workflows
              /\ LastKey \notin DOMAIN transitions
    /\ IF last.op = "create_workflow" /\ last.result = Ok
       THEN /\ DOMAIN workflows = DOMAIN Before.workflows \cup {to_string(last.ret[1])}
            /\ DOMAIN transitions = DOMAIN Before.transitions \cup {to_string(last.ret[1])}
            /\ to_string(last.ret[1]) \notin DOMAIN Before.workflows
       ELSE /\ DOMAIN workflows = DOMAIN Before.workflows
            /\ DOMAIN transitions = DOMAIN Before.transitions
    /\ last.op = "get_workflow_count" => UnknownIdIsNotFound

\* transition_state on id 2 has just reverted with WorkflowNotFound while
\* only workflow 1 exists.
C12_Witness ==
    /\ last.op = "transition_state"
    /\ last.args.workflow_id = 2
    /\ last.args.to_state = PENDING_REVIEW
    /\ last.result = WorkflowNotFound
    /\ DOMAIN workflows = {to_string(1)}
    /\ DOMAIN transitions = {to_string(1)}

-----------------------------------------------------------------------------
(* C13 *)

\* C13: the two dictionaries hold the same keys, and a workflow's transition
\* sequence is empty exactly while its current_state is DRAFT, that is while
\* no transition has succeeded for it; a successful transition_state leaves
\* the sequence of its workflow non-empty.
C13_StoreAndLogConsistent ==
    /\ DOMAIN transitions = DOMAIN workflows
    /\ \A key \in DOMAIN workflows :
           RecordsOf(store, key) = <<>> <=> workflows[key].current_state = DRAFT
    /\ (last.op = "transition_state" /\ last.result = Ok)
           => RecordsOf(store, LastKey) # <<>>

\* A block after the last call, one workflow still has an empty sequence and
\* another has records.
C13_Witness ==
    /\ last.op = "tick"
    /\ \E key \in DOMAIN workflows : transitions[key] = <<>>
    /\ \E key \in DOMAIN workflows : transitions[key] # <<>>

-----------------------------------------------------------------------------
(* C14 *)

\* C14: with a block time that never decreases (Tick only advances it), every
\* workflow has updated_at >= created_at, updated_at is the timestamp of its
\* last record (created_at when it has none), and the timestamps of its
\* records never decrease along the sequence, starting no earlier than
\* created_at.
C14_TimestampsOrdered ==
    \A key \in DOMAIN workflows :
        LET w == workflows[key]
            h == RecordsOf(store, key)
        IN  /\ w.updated_at >= w.created_at
            /\ w.updated_at = IF h = <<>> THEN w.created_at ELSE h[Len(h)].timestamp
            /\ h # <<>> => h[1].timestamp >= w.created_at
            /\ \A i \in 1..(Len(h) - 1) : h[i].timestamp <= h[i + 1].timestamp

\* A workflow made one transition in the block it was created in and another
\* in a later block.
C14_Witness ==
    \E key \in DOMAIN workflows :
        LET w == workflows[key]
            h == RecordsOf(store, key)
        IN  /\ Len(h) >= 2
            /\ h[1].timestamp = w.created_at
            /\ h[1].timestamp < h[Len(h)].timestamp
            /\ w.created_at < w.updated_at

-----------------------------------------------------------------------------
(* C15 *)

C15_ReadDuringTransition ==
    /\ inflight # <<>>
    /\ inflight[1].pc = "get_transitions"
    /\ last.op = "get_workflow_state"
    /\ last.args.workflow_id = inflight[1].args.workflow_id
    /\ last.ret[1].current_state # inflight[1].effects.workflows[inflight[1].key].current_state

-----------------------------------------------------------------------------
(* C16 *)

\* C16: a create_workflow invoked when the counter holds its maximum value
\* fails with Overflow, and only then; the failed call leaves the counter at
\* the maximum (no wrap to 0) and writes no workflow record and no transition
\* sequence; no invocation ever lowers the counter.
C16_OverflowKeepsCounter ==
    /\ (last.op = "create_workflow" /\ Before.workflow_count = MaxCount)
           => /\ last.result = Overflow
              /\ last.ret = <<>>
              /\ pre = <<>>
              /\ workflow_count = MaxCount
    /\ (last.op = "create_workflow" /\ Before.workflow_count < MaxCount)
           => last.result = Ok
    /\ last.result = Overflow => last.op = "create_workflow"
    /\ workflow_count >= Before.workflow_count
    /\ workflow_count <= MaxCount

\* create_workflow failed with Overflow while every id up to the maximum is
\* stored and one of the workflows has a history.
C16_Witness ==
    /\ last.op = "create_workflow"
    /\ last.result = Overflow
    /\ workflow_count = MaxCount
    /\ \A id \in 1..MaxCount : to_string(id) \in DOMAIN workflows
    /\ \E key \in DOMAIN transitions : transitions[key] # <<>>

-----------------------------------------------------------------------------
(* C17 *)

\* h is g with zero or more records added at the end
IsPrefix(g, h) == Len(g) <= Len(h) /\ \A i \in 1..Len(g) : h[i] = g[i]

\* C17: over every step, each workflow's sequence before the step is a prefix
\* of its sequence after the step (no record removed, reordered or
\* rewritten); a successful transition extends the sequence of its workflow
\* by exactly one record and leaves every other sequence as it was; any other
\* invocation leaves every existing sequence as it was; no workflow and no
\* sequence is ever deleted.
C17_LogIsAppendOnly ==
    pre # <<>> =>
        /\ DOMAIN Before.workflows \subseteq DOMAIN workflows
        /\ DOMAIN Before.transitions \subseteq DOMAIN transitions
        /\ \A key \in DOMAIN Before.transitions :
               /\ IsPrefix(Before.transitions[key], transitions[key])
               /\ Len(transitions[key]) =
                      IF /\ last.op = "transition_state"
                         /\ last.result = Ok
                         /\ key = LastKey
                      THEN Len(Before.transitions[key]) + 1
                      ELSE Len(Before.transitions[key])
        /\ (last.op = "transition_state" /\ last.result = Ok)
               => LastKey \in DOMAIN Before.transitions

\* A second record was appended to a history while another workflow's history
\* holds a record.
C17_Witness ==
    /\ last.op = "transition_state"
    /\ last.result = Ok
    /\ pre # <<>>
    /\ Len(Before.transitions[LastKey]) = 1
    /\ Len(transitions[LastKey]) = 2
    /\ \E key \in DOMAIN transitions \ {LastKey} : Len(transitions[key]) = 1

-----------------------------------------------------------------------------
(* C18 *)

\* The fields of a workflow record that transition_state assigns
TransitionFields == {"current_state", "updated_at", "is_completed"}

\* C18: a successful transition_state(id, ...) leaves id, template_hash,
\* data_hash, creator and created_at of that workflow as they were (it may
\* change only current_state, updated_at and is_completed, and the workflow's
\* sequence), leaves the record and the sequence of every other workflow as
\* they were, adds or removes no key, and leaves the counter as it was.
C18_TransitionFrame ==
    (last.op = "transition_state" /\ last.result = Ok) =>
        /\ pre # <<>>
        /\ DOMAIN workflows = DOMAIN Before.workflows
        /\ DOMAIN transitions = DOMAIN Before.transitions
        /\ workflow_count = Before.workflow_count
        /\ DOMAIN workflows[LastKey] = DOMAIN Before.workflows[LastKey]
        /\ \A f \in DOMAIN workflows[LastKey] \ TransitionFields :
               workflows[LastKey][f] = Before.workflows[LastKey][f]
        /\ \A key \in DOMAIN workflows \ {LastKey} :
               /\ workflows[key] = Before.workflows[key]
               /\ transitions[key] = Before.transitions[key]

\* A transition in a block later than the workflow's creation succeeded while
\* another workflow with a history of its own is stored.
C18_Witness ==
    /\ last.op = "transition_state"
    /\ last.result = Ok
    /\ workflows[LastKey].created_at < workflows[LastKey].updated_at
    /\ workflows[LastKey].id = last.args.workflow_id
    /\ \E key \in DOMAIN workflows \ {LastKey} : transitions[key] # <<>>

-----------------------------------------------------------------------------
(* C19 *)

\* The six predefined states
PredefinedStates == {DRAFT, PENDING_REVIEW, APPROVED, REJECTED, ESCALATED, CANCELLED}

\* C19: for each of the 256 x 256 pairs (from, to), is_valid_transition
\* rejects the pair when from is APPROVED, REJECTED or CANCELLED, when
\* from = to, and when from or to is not one of the six predefined states
\* (values of 100 and more included); the pairs it accepts are exactly the
\* seven of the allow list.
C19_ValidityOverAllPairs ==
    /\ Cardinality(AllowList) = 7
    /\ last.ret # <<>> =>
           LET from == last.args.from
               to == last.args.to
               accepted == last.ret[1]
           IN  /\ from \in TerminalStates => ~accepted
               /\ from = to => ~accepted
               /\ (from \notin PredefinedStates \/ to \notin PredefinedStates) => ~accepted
               /\ (from >= 100 \/ to >= 100) => ~accepted
               /\ accepted <=> <<from, to>> \in AllowList

\* The function was applied to (ESCALATED, 255) and rejected it.
C19_Witness ==
    /\ last.op = "is_valid_transition"
    /\ last.args = [from |-> ESCALATED, to |-> 255]
    /\ last.ret = <<FALSE>>

-----------------------------------------------------------------------------
(* C20 *)

\* No two records of h have the same from_state
DistinctFromStates(h) ==
    \A i \in 1..Len(h) : \A j \in 1..Len(h) : h[i].from_state = h[j].from_state => i = j

\* C20: in every reachable state each workflow's history has at most 3
\* records and no state twice as a from_state; a workflow whose history has 3
\* records is completed; and one more transition_state on any stored
\* workflow, applied to the state whatever the exploration cap, either fails
\* or again leaves a history of at most 3 records with distinct from_states.
C20_HistoryIsShort ==
    /\ \A key \in DOMAIN workflows :
           LET h == RecordsOf(store, key)
           IN  /\ Len(h) <= 3
               /\ DistinctFromStates(h)
               /\ Len(h) = 3 => workflows[key].is_completed
    /\ last.op = "get_workflow_count" =>
           \A workflow_id \in WorkflowIds, to_state \in ToStates, c \in TransitionCalls :
               \A out \in {transition_state_effect(store, workflow_id, to_state, c.caller,
                                                   c.actor_role, c.comment_hash, now)} :
                   LET h == RecordsOf(out.store, to_string(workflow_id))
                   IN  /\ Len(h) <= 3
                       /\ DistinctFromStates(h)
                       /\ (out.result = Ok /\ Len(h) = 3)
                              => out.store.workflows[to_string(workflow_id)].is_completed

\* A fourth transition of a workflow whose history has 3 records was refused.
C20_Witness ==
    /\ last.op = "transition_state"
    /\ last.result = WorkflowAlreadyCompleted
    /\ LastKey \in DOMAIN workflows
    /\ Len(RecordsOf(store, LastKey)) = 3
    /\ workflows[LastKey].is_completed

-----------------------------------------------------------------------------
(* C21 *)

\* C21: in every reachable state, a workflow in APPROVED or REJECTED has a
\* record with to_state = PENDING_REVIEW before the last record of its
\* history; a workflow in ESCALATED has a last record
\* PENDING_REVIEW -> ESCALATED that follows a record into PENDING_REVIEW; a
\* workflow in CANCELLED has a history of exactly one record,
\* DRAFT -> CANCELLED.
C21_NoDecisionWithoutReview ==
    \A key \in DOMAIN workflows :
        LET w == workflows[key]
            h == RecordsOf(store, key)
        IN  /\ w.current_state \in {APPROVED, REJECTED}
                   => \E i \in 1..(Len(h) - 1) : h[i].to_state = PENDING_REVIEW
            /\ w.current_state = ESCALATED
                   => /\ Len(h) >= 2
                      /\ h[Len(h)].from_state = PENDING_REVIEW
                      /\ h[Len(h)].to_state = ESCALATED
                      /\ h[Len(h) - 1].to_state = PENDING_REVIEW
            /\ w.current_state = CANCELLED
                   => /\ Len(h) = 1
                      /\ h[1].from_state = DRAFT
                      /\ h[1].to_state = CANCELLED

\* One workflow was rejected after review while another was cancelled from
\* DRAFT.
C21_Witness ==
    /\ inflight = <<>>
    /\ \E key \in DOMAIN workflows :
           /\ workflows[key].current_state = REJECTED
           /\ Len(RecordsOf(store, key)) = 2
    /\ \E key \in DOMAIN workflows : workflows[key].current_state = CANCELLED

-----------------------------------------------------------------------------
(* C22 *)

\* C22: in every reachable state the keys of the workflow records are exactly
\* the ids 1..workflow_count and each record's id field is its key; the first
\* create_workflow returns 1; id 0 is never stored, and get_workflow_state(0)
\* and transition_state(0, to_state), for every to_state, fail with
\* WorkflowNotFound, both when invoked and when applied to the state.
C22_IdsAreOneToCount ==
    /\ DOMAIN workflows = {to_string(id) : id \in 1..workflow_count}
    /\ \A key \in DOMAIN workflows : to_string(workflows[key].id) = key
    /\ to_string(0) \notin DOMAIN workflows
    /\ (last.op = "create_workflow" /\ last.result = Ok /\ Before.workflow_count = 0)
           => last.ret = <<1>>
    /\ (last.op \in {"get_workflow_state", "transition_state"} /\ last.args.workflow_id = 0)
           => last.result = WorkflowNotFound
    /\ get_workflow_state_effect(store, 0).result = WorkflowNotFound
    /\ \A to_state \in ToStates, c \in TransitionCalls :
           transition_state_effect(store, 0, to_state, c.caller, c.actor_role,
                                   c.comment_hash, now).result = WorkflowNotFound

\* transition_state(0, PENDING_REVIEW) failed with WorkflowNotFound while the
\* counter is at its capacity and every id from 1 to it is stored.
C22_Witness ==
    /\ last.op = "transition_state"
    /\ last.args.workflow_id = 0
    /\ last.args.to_state = PENDING_REVIEW
    /\ last.result = WorkflowNotFound
    /\ workflow_count = MaxCount
    /\ Cardinality(DOMAIN workflows) = MaxCount

-----------------------------------------------------------------------------
(* C23 *)

\* The to_state values with which transition_state on workflow_id would
\* succeed in the persisted state, whatever the exploration cap
AcceptedToStates(workflow_id) ==
    {to_state \in U8 :
        \A c \in TransitionCalls :
            transition_state_effect(store, workflow_id, to_state, c.caller, c.actor_role,
                                    c.comment_hash, now).result = Ok}

\* C23: in every reachable state each workflow's current_state is one of the
\* six predefined states; a workflow is completed exactly when
\* transition_state on it succeeds for no to_state in 0..255; a workflow that
\* is not completed is in DRAFT, PENDING_REVIEW or ESCALATED and has an
\* accepted to_state that is terminal, so one more transition completes it.
C23_NoWorkflowStuck ==
    /\ \A key \in DOMAIN workflows : workflows[key].current_state \in PredefinedStates
    /\ last.op = "get_workflow_count" =>
           \A key \in DOMAIN workflows :
               LET w == workflows[key]
               IN  \A accepted \in {AcceptedToStates(w.id)} :
                       /\ w.is_completed <=> accepted = {}
                       /\ ~w.is_completed
                              => /\ w.current_state \in {DRAFT, PENDING_REVIEW, ESCALATED}
                                 /\ \E to_state \in accepted : is_terminal_state(to_state)

\* The counter was read while one workflow waits in ESCALATED and another is
\* completed.
C23_Witness ==
    /\ last.op = "get_workflow_count"
    /\ \E key \in DOMAIN workflows :
           /\ workflows[key].current_state = ESCALATED
           /\ ~workflows[key].is_completed
    /\ \E key \in DOMAIN workflows : workflows[key].is_completed

====
